---- MODULE Spec2Model ----
(***************************************************************************)
(* Engine session layer of Cute Chess (ChessEngine, chessengine.cpp).      *)
(*                                                                         *)
(* One ChessEngine object is modelled in full: its lifecycle state, the    *)
(* ping/pong liveness monitor, the outbound write buffer, the pending      *)
(* option buffer and the I/O device it owns.  Every C++ method is an       *)
(* operator from a session record to a session record, so that a method    *)
(* calling another method is operator application; every slot or public    *)
(* method is one action of Next.  The static instance counter m_count is   *)
(* modelled for a population of engines under the specification SpecIds.   *)
(***************************************************************************)
EXTENDS Integers, Sequences, FiniteSets, TLC

\* Bounds of the model.
MaxLines == 4       \* fresh lines handed to write() during one run
MaxPending == 2     \* option edits queued in m_optionBuffer
PingTicks == 2      \* clock ticks the 10000 ms ping timer is divided into
MaxEngines == 5     \* ChessEngine objects constructed during one run
MaxPlies == 3       \* moves made and not yet undone on the Crazyhouse board
NumSquares == 3     \* squares of the Crazyhouse board; the last one promotes

VARIABLES
    state,          \* ChessPlayer::state()
    m_pinging,      \* awaiting a pong
    m_pingState,    \* state() recorded by ping()
    m_pingTimer,    \* 0 = inactive, n > 0 = n ticks until timeout()
    m_writeBuffer,  \* lines deferred by write()
    m_optionBuffer, \* (name, value) edits deferred by setOption()
    m_options,      \* declared options: name -> current value
    ioOpen,         \* m_ioDevice->isOpen()
    listening,      \* readChannelFinished() is connected to onDisconnect()
    pingSupported,  \* whether the protocol's sendPing() can ping this engine
    protocolStarted,\* startProtocol() has been called
    stream,         \* lines written to m_ioDevice, oldest first
    nextSeq,        \* number of fresh lines handed to write() so far
    emitted,        \* signals emitted by the last handler, in order
    forfeits,       \* emitForfeit(WinByStalledConnection) calls so far
    closes,         \* m_ioDevice->close() calls so far
    closeReadies,   \* ready() signals emitted by closeConnection() so far
    lastOp,         \* the handler that ran last
    appliedSettings,\* <<initStrings, customSettings>> given to applySettings()
    squares,        \* CrazyhouseBoard: square -> piece
    hands,          \* CrazyhouseBoard: side -> piece type -> pieces in hand
    sideToMove,     \* CrazyhouseBoard: the side to move
    moveHistory,    \* CrazyhouseBoard: moves made, with what undoing needs
    positions,      \* squares and hands as they were before each move made
    m_count,        \* static int ChessEngine::m_count
    engineIds,      \* m_id of every live ChessEngine, in construction order
    assignedIds     \* every m_id handed out so far, in construction order

sessionVars == <<state, m_pinging, m_pingState, m_pingTimer, m_writeBuffer,
                 m_optionBuffer, m_options, ioOpen, listening, pingSupported,
                 protocolStarted, stream, nextSeq, emitted, forfeits, closes,
                 closeReadies, lastOp>>
idVars == <<m_count, engineIds, assignedIds>>
boardVars == <<squares, hands, sideToMove, moveHistory, positions>>
vars == <<sessionVars, idVars, appliedSettings, boardVars>>

States == {"NotStarted", "Starting", "Idle", "Observing", "Thinking",
           "FinishingGame", "Disconnected"}

OptionNames == {"Hash"}                  \* options the engine declares
OptionValues == {1, 2}                   \* values EngineOption::isValid accepts
OptionEdits == {<<"Hash", 1>>, <<"Hash", 2>>, <<"Hash", 9>>, <<"Bogus", 1>>}

\* EngineSettings handed to applySettings(): the initialization strings (each
\* named by a number) and the custom settings.
InitStringLists == {<<>>, <<1>>, <<1, 2>>}
CustomSettingLists == {<<>>, <<<<"Hash", 1>>>>, <<<<"Hash", 1>>, <<"Hash", 2>>>>,
                       <<<<"Hash", 9>>, <<"Hash", 1>>>>}

\* A line handed to write(): its submission number and its text.
Line(id, op, name, value) == [id |-> id, op |-> op, name |-> name, value |-> value]

\* The session as one record, the `this' of the methods below.
Self ==
    [state |-> state, m_pinging |-> m_pinging, m_pingState |-> m_pingState,
     m_pingTimer |-> m_pingTimer, m_writeBuffer |-> m_writeBuffer,
     m_optionBuffer |-> m_optionBuffer, m_options |-> m_options,
     ioOpen |-> ioOpen, listening |-> listening,
     pingSupported |-> pingSupported, protocolStarted |-> protocolStarted,
     stream |-> stream, nextSeq |-> nextSeq, emitted |-> <<>>,
     forfeits |-> forfeits, closes |-> closes, closeReadies |-> closeReadies]

-----------------------------------------------------------------------------
(* ChessPlayer, the base class: state bookkeeping and signals.             *)

setState(s, st) == [s EXCEPT !.state = st]

emit(s, sig) == [s EXCEPT !.emitted = Append(@, sig)]

emitForfeit(s) == [emit(s, "forfeit") EXCEPT !.forfeits = @ + 1]

ChessPlayer_closeConnection(s) == setState(s, "Disconnected")

ChessPlayer_go(s) ==
    IF s.state = "Observing" THEN setState(s, "Thinking") ELSE s

ChessPlayer_endGame(s) ==
    IF s.state \in {"Observing", "Thinking"}
    THEN setState(s, "FinishingGame")
    ELSE s

ChessPlayer_isReady(s) == s.state = "Idle"

-----------------------------------------------------------------------------
(* ChessEngine::write and flushWriteBuffer.                                *)

write_NoDisconnectCheck(s, data) ==
    IF s.state = "NotStarted" \/ s.m_pinging
    THEN [s EXCEPT !.m_writeBuffer = Append(@, data)]
    ELSE [s EXCEPT !.stream = Append(@, data)]

write(s, data) ==
    IF s.state = "Disconnected" THEN s
    ELSE IF s.state = "NotStarted" \/ s.m_pinging
    THEN [s EXCEPT !.m_writeBuffer = Append(@, data)]
    ELSE \* QIODevice::write() on a closed device writes nothing
         IF s.ioOpen THEN [s EXCEPT !.stream = Append(@, data)] ELSE s

RECURSIVE writeAll(_, _)
writeAll(s, lines) ==
    IF lines = <<>> THEN s
    ELSE writeAll(write(s, Head(lines)), Tail(lines))

flushWriteBuffer_NoClear(s) ==
    IF s.m_pinging \/ s.state = "NotStarted" THEN s
    ELSE writeAll(s, s.m_writeBuffer)

flushWriteBuffer(s) ==
    IF s.m_pinging \/ s.state = "NotStarted" THEN s
    ELSE [writeAll(s, s.m_writeBuffer) EXCEPT !.m_writeBuffer = <<>>]

\* A command of the session itself or of its driver: a fresh line for write().
send(s, op, name, value) ==
    write([s EXCEPT !.nextSeq = @ + 1], Line(s.nextSeq, op, name, value))

-----------------------------------------------------------------------------
(* The protocol's primitives (pure virtual in ChessEngine).                *)

sendPingOk(s) == s.pingSupported /\ s.ioOpen

sendPing(s) == IF sendPingOk(s) THEN send(s, "ping", "", 0) ELSE s

sendQuit(s) == send(s, "quit", "", 0)

sendOption(s, name, value) == send(s, "setoption", name, value)

startProtocol(s) ==
    [send(s, "protocol", "", 0) EXCEPT !.protocolStarted = TRUE]

isValid(name, value) == value \in OptionValues

-----------------------------------------------------------------------------
(* ChessEngine's methods.                                                  *)

getOption(s, name) == IF name \in DOMAIN s.m_options THEN name ELSE "null"

setOption_NoDefer(s, name, value) ==
    IF getOption(s, name) = "null" THEN s
    ELSE IF ~isValid(name, value) THEN s
    ELSE sendOption([s EXCEPT !.m_options[name] = value], name, value)

setOption_NoValidate(s, name, value) ==
    IF s.state = "Starting" \/ s.state = "NotStarted"
    THEN [s EXCEPT !.m_optionBuffer = Append(@, <<name, value>>)]
    ELSE IF getOption(s, name) = "null" THEN s
    ELSE sendOption([s EXCEPT !.m_options[name] = value], name, value)

setOption(s, name, value) ==
    IF s.state = "Starting" \/ s.state = "NotStarted"
    THEN [s EXCEPT !.m_optionBuffer = Append(@, <<name, value>>)]
    ELSE IF getOption(s, name) = "null" THEN s
    ELSE IF ~isValid(name, value) THEN s
    ELSE sendOption([s EXCEPT !.m_options[name] = value], name, value)

RECURSIVE setOptions(_, _)
setOptions(s, settings) ==
    IF settings = <<>> THEN s
    ELSE setOptions(setOption(s, Head(settings)[1], Head(settings)[2]),
                    Tail(settings))

RECURSIVE writeStrings(_, _)
writeStrings(s, strs) ==
    IF strs = <<>> THEN s
    ELSE writeStrings(send(s, "init", "", Head(strs)), Tail(strs))

applySettings_OptionsFirst(s, initStrings, customSettings) ==
    writeStrings(setOptions(s, customSettings), initStrings)

\* setTimeControl() and m_whiteEvalPov touch neither the stream nor the
\* buffers and are left out.
applySettings(s, initStrings, customSettings) ==
    setOptions(writeStrings(s, initStrings), customSettings)

start(s) ==
    IF s.state # "NotStarted" THEN s
    ELSE LET a == flushWriteBuffer(
                      setState([s EXCEPT !.m_pinging = FALSE], "Starting"))
         IN  [startProtocol(a) EXCEPT !.m_pinging = TRUE]

isReady(s) == IF s.m_pinging THEN FALSE ELSE ChessPlayer_isReady(s)

onProtocolStart(s) ==
    LET a == flushWriteBuffer(
                 setState([s EXCEPT !.m_pinging = FALSE], "Idle"))
    IN  [setOptions(a, a.m_optionBuffer) EXCEPT !.m_optionBuffer = <<>>]

ping_NoGuard(s) ==
    IF s.state = "NotStarted" \/ s.state = "Disconnected" \/ ~sendPingOk(s)
    THEN s
    ELSE [sendPing(s) EXCEPT !.m_pinging = TRUE,
                             !.m_pingState = s.state,
                             !.m_pingTimer = PingTicks]

ping_NoTimer(s) ==
    IF \/ s.m_pinging
       \/ s.state = "NotStarted"
       \/ s.state = "Disconnected"
       \/ ~sendPingOk(s)
    THEN s
    ELSE [sendPing(s) EXCEPT !.m_pinging = TRUE,
                             !.m_pingState = s.state]

ping(s) ==
    IF \/ s.m_pinging
       \/ s.state = "NotStarted"
       \/ s.state = "Disconnected"
       \/ ~sendPingOk(s)
    THEN s
    ELSE [sendPing(s) EXCEPT !.m_pinging = TRUE,
                             !.m_pingState = s.state,
                             !.m_pingTimer = PingTicks]

go(s) == ChessPlayer_go(IF s.state = "Observing" THEN ping(s) ELSE s)

endGame(s) == ping(ChessPlayer_endGame(s))

closeConnection_NoGuard(s) ==
    LET t == ChessPlayer_closeConnection(s)
        u == emit([t EXCEPT !.m_pinging = FALSE,
                            !.m_pingTimer = 0,
                            !.m_writeBuffer = <<>>], "ready")
    IN  [u EXCEPT !.closeReadies = @ + 1,
                  !.listening = FALSE,
                  !.ioOpen = FALSE,
                  !.closes = @ + 1]

closeConnection(s) ==
    IF s.state = "Disconnected" THEN s
    ELSE LET t == ChessPlayer_closeConnection(s)
             u == emit([t EXCEPT !.m_pinging = FALSE,
                                 !.m_pingTimer = 0,
                                 !.m_writeBuffer = <<>>], "ready")
         IN  [u EXCEPT !.closeReadies = @ + 1,
                       !.listening = FALSE,
                       !.ioOpen = FALSE,
                       !.closes = @ + 1]

pong_AlwaysReady(s) ==
    IF ~s.m_pinging THEN s
    ELSE LET t == flushWriteBuffer([s EXCEPT !.m_pingTimer = 0,
                                             !.m_pinging = FALSE])
         IN  IF t.state = "FinishingGame"
             THEN IF t.m_pingState = "FinishingGame"
                  THEN emit([setState(t, "Idle") EXCEPT !.m_pingState = "Idle"],
                            "ready")
                  ELSE emit(ping(t), "ready")
             ELSE emit(t, "ready")

pong(s) ==
    IF ~s.m_pinging THEN s
    ELSE LET t == flushWriteBuffer([s EXCEPT !.m_pingTimer = 0,
                                             !.m_pinging = FALSE])
         IN  IF t.state = "FinishingGame"
             THEN IF t.m_pingState = "FinishingGame"
                  THEN emit([setState(t, "Idle") EXCEPT !.m_pingState = "Idle"],
                            "ready")
                  ELSE ping(t)
             ELSE emit(t, "ready")

onPingTimeout(s) ==
    emitForfeit(closeConnection([s EXCEPT !.m_pinging = FALSE,
                                          !.m_writeBuffer = <<>>]))

quit(s) ==
    IF ~s.ioOpen \/ s.state = "Disconnected" THEN s
    ELSE setState(sendQuit([s EXCEPT !.listening = FALSE]), "Disconnected")

\* The slot connected to readChannelFinished().
onDisconnect(s) == closeConnection(s)

-----------------------------------------------------------------------------
(* CrazyhouseBoard (crazyhouseboard.h): pieces, hands, make and undo.       *)

\* WesternBoard's piece types, then CrazyhousePieceType.
Pawn == 1
Knight == 2
Bishop == 3
Rook == 4
Queen == 5
King == 6
PromotedKnight == 7
PromotedBishop == PromotedKnight + 1
PromotedRook == PromotedKnight + 2
PromotedQueen == PromotedKnight + 3

PieceTypes == Pawn..PromotedQueen
Sides == {"white", "black"}
otherSide(sd) == IF sd = "white" THEN "black" ELSE "white"

NoPiece == [side |-> "none", type |-> 0]
Piece(sd, type) == [side |-> sd, type |-> type]
EmptyHands == [sd \in Sides |-> [type \in PieceTypes |-> 0]]

\* A move: source 0 is a drop, and then promotion is the type dropped.
Move(source, target, promotion) ==
    [source |-> source, target |-> target, promotion |-> promotion]

normalPieceType(type) ==
    IF type \in PromotedKnight..PromotedQueen
    THEN type - PromotedKnight + Knight
    ELSE type

promotedPieceType(type) ==
    IF type \in Knight..Queen THEN type - Knight + PromotedKnight ELSE type

handPieceType_Keep(pieceType) == pieceType

\* "All of these pieces where promoted from pawns, and when they're captured
\*  they get demoted back to pawns."
handPieceType(pieceType) ==
    IF pieceType >= PromotedKnight THEN Pawn ELSE pieceType

\* The board as one record.
Board ==
    [squares |-> squares, hands |-> hands, sideToMove |-> sideToMove,
     moveHistory |-> moveHistory]

vMakeMove(b, move) ==
    LET sd == b.sideToMove
        capture == b.squares[move.target]
        placed ==
            IF move.source = 0 THEN Piece(sd, move.promotion)
            ELSE IF move.promotion # 0
                 THEN Piece(sd, promotedPieceType(move.promotion))
                 ELSE b.squares[move.source]
        hands1 ==
            IF capture # NoPiece
            THEN [b.hands EXCEPT ![sd][handPieceType(capture.type)] = @ + 1]
            ELSE IF move.source = 0
                 THEN [b.hands EXCEPT ![sd][move.promotion] = @ - 1]
                 ELSE b.hands
        squares1 ==
            [sq \in 1..NumSquares |->
                IF sq = move.target THEN placed
                ELSE IF sq = move.source THEN NoPiece
                ELSE b.squares[sq]]
        undo == [move |-> move, capture |-> capture,
                 moved |-> IF move.source = 0 THEN NoPiece
                           ELSE b.squares[move.source]]
    IN  [squares |-> squares1, hands |-> hands1, sideToMove |-> otherSide(sd),
         moveHistory |-> Append(b.moveHistory, undo)]

vUndoMove(b) ==
    LET undo == b.moveHistory[Len(b.moveHistory)]
        move == undo.move
        sd == otherSide(b.sideToMove)
        hands1 ==
            IF undo.capture # NoPiece
            THEN [b.hands EXCEPT ![sd][handPieceType(undo.capture.type)] = @ - 1]
            ELSE IF move.source = 0
                 THEN [b.hands EXCEPT ![sd][move.promotion] = @ + 1]
                 ELSE b.hands
        squares1 ==
            [sq \in 1..NumSquares |->
                IF sq = move.target THEN undo.capture
                ELSE IF sq = move.source THEN undo.moved
                ELSE b.squares[sq]]
    IN  [squares |-> squares1, hands |-> hands1, sideToMove |-> sd,
         moveHistory |-> SubSeq(b.moveHistory, 1, Len(b.moveHistory) - 1)]

\* The moves the board offers: a piece of the side to move goes to any square
\* not held by its own side (a king is never captured), a pawn reaching the
\* last square promotes; a piece in hand drops on an empty square, a pawn not
\* on the last square.
BoardMoves(b) ==
    {m \in {Move(src, tgt, prom) : src \in 1..NumSquares, tgt \in 1..NumSquares,
                                   prom \in {0, Knight, Queen}} :
        /\ m.source # m.target
        /\ b.squares[m.source].side = b.sideToMove
        /\ b.squares[m.target].side # b.sideToMove
        /\ b.squares[m.target].type # King
        /\ ((m.promotion # 0) <=>
               (b.squares[m.source].type = Pawn /\ m.target = NumSquares))}

DropMoves(b) ==
    {m \in {Move(0, tgt, type) : tgt \in 1..NumSquares, type \in Pawn..Queen} :
        /\ b.hands[b.sideToMove][m.promotion] > 0
        /\ b.squares[m.target] = NoPiece
        /\ ~(m.promotion = Pawn /\ m.target = NumSquares)}

Moves(b) == BoardMoves(b) \cup DropMoves(b)

-----------------------------------------------------------------------------
(* Actions: one per public method, slot or timer event.                    *)

CommitSession(t, op) ==
    /\ t.nextSeq <= MaxLines
    /\ state' = t.state
    /\ m_pinging' = t.m_pinging
    /\ m_pingState' = t.m_pingState
    /\ m_pingTimer' = t.m_pingTimer
    /\ m_writeBuffer' = t.m_writeBuffer
    /\ m_optionBuffer' = t.m_optionBuffer
    /\ m_options' = t.m_options
    /\ ioOpen' = t.ioOpen
    /\ listening' = t.listening
    /\ pingSupported' = t.pingSupported
    /\ protocolStarted' = t.protocolStarted
    /\ stream' = t.stream
    /\ nextSeq' = t.nextSeq
    /\ emitted' = t.emitted
    /\ forfeits' = t.forfeits
    /\ closes' = t.closes
    /\ closeReadies' = t.closeReadies
    /\ lastOp' = op

Commit(t, op) ==
    /\ CommitSession(t, op)
    /\ UNCHANGED <<idVars, appliedSettings, boardVars>>

InitEngine ==
    /\ state = "NotStarted"
    /\ m_pinging = FALSE
    /\ m_pingState = "NotStarted"
    /\ m_pingTimer = 0
    /\ m_writeBuffer = <<>>
    /\ m_optionBuffer = <<>>
    /\ m_options = <<>>
    /\ ioOpen = TRUE
    /\ listening = TRUE
    /\ pingSupported \in BOOLEAN
    /\ protocolStarted = FALSE
    /\ stream = <<>>
    /\ nextSeq = 0
    /\ emitted = <<>>
    /\ forfeits = 0
    /\ closes = 0
    /\ closeReadies = 0
    /\ lastOp = "new"
    /\ m_count = 1
    /\ engineIds = <<0>>
    /\ assignedIds = <<0>>
    /\ appliedSettings = <<>>

Init ==
    /\ InitEngine
    /\ squares = [sq \in 1..NumSquares |-> NoPiece]
    /\ hands = EmptyHands
    /\ sideToMove = "white"
    /\ moveHistory = <<>>
    /\ positions = <<>>

Start == Commit(start(Self), "start")

Write == Commit(send(Self, "line", "", 0), "write")

SetOption ==
    \E e \in OptionEdits :
        /\ state \in {"NotStarted", "Starting"} => Len(m_optionBuffer) < MaxPending
        /\ Commit(setOption(Self, e[1], e[2]), "setOption")

Go == Commit(go(Self), "go")

EndGame == Commit(endGame(Self), "endGame")

CloseConnection == Commit(closeConnection(Self), "closeConnection")

Quit == Commit(quit(Self), "quit")

\* The engine answers a ping (or sends an unsolicited pong).
Pong ==
    /\ ioOpen
    /\ Commit(pong(Self), "pong")

\* The engine announces that protocol startup is complete.
OnProtocolStart ==
    /\ ioOpen
    /\ protocolStarted
    /\ Commit(onProtocolStart(Self), "onProtocolStart")

\* The engine declares an option (last declaration wins).
AddOption ==
    /\ ioOpen
    /\ \E n \in OptionNames :
           Commit([Self EXCEPT !.m_options = [x \in {n} |-> 0]], "addOption")

\* The driver starts a game with this player; the engine plays a move.
NewGame ==
    /\ state = "Idle"
    /\ Commit(setState(Self, "Observing"), "newGame")

MoveMade ==
    /\ state = "Thinking"
    /\ ioOpen
    /\ Commit(setState(Self, "Observing"), "moveMade")

\* Time passes on the armed single-shot ping timer; at the last tick it fires.
Tick ==
    /\ m_pingTimer > 1
    /\ Commit([Self EXCEPT !.m_pingTimer = @ - 1], "tick")

OnPingTimeout ==
    /\ m_pingTimer = 1
    /\ Commit(onPingTimeout([Self EXCEPT !.m_pingTimer = 0]), "onPingTimeout")

\* The engine process closes its end of the stream.
OnDisconnect ==
    /\ ioOpen
    /\ listening
    /\ Commit(onDisconnect(Self), "onDisconnect")

Next ==
    \/ Start
    \/ Write
    \/ SetOption
    \/ Go
    \/ EndGame
    \/ CloseConnection
    \/ Quit
    \/ Pong
    \/ OnProtocolStart
    \/ AddOption
    \/ NewGame
    \/ MoveMade
    \/ Tick
    \/ OnPingTimeout
    \/ OnDisconnect

Spec == Init /\ [][Next]_vars

\* The armed single-shot timer runs down and fires unless a pong or a closure
\* stops it first; nothing else is required to happen.
\* The driver configures the engine with one applySettings() call, at any
\* moment of the session's life.
ApplySettings ==
    /\ appliedSettings = <<>>
    /\ \E inits \in InitStringLists, custom \in CustomSettingLists :
           /\ state \in {"NotStarted", "Starting"} =>
                  Len(m_optionBuffer) + Len(custom) <= MaxPending
           /\ appliedSettings' = <<inits, custom>>
           /\ CommitSession(applySettings(Self, inits, custom), "applySettings")
           /\ UNCHANGED <<idVars, boardVars>>

NextSettings ==
    \/ ApplySettings
    \/ Start
    \/ Write
    \/ EndGame
    \/ CloseConnection
    \/ Quit
    \/ Pong
    \/ OnProtocolStart
    \/ AddOption
    \/ Tick
    \/ OnPingTimeout
    \/ OnDisconnect

SpecSettings == Init /\ [][NextSettings]_vars

\* Only the game cycle is driven: startup, games, pings and their answers.
NextLive ==
    \/ Start
    \/ OnProtocolStart
    \/ NewGame
    \/ Go
    \/ MoveMade
    \/ EndGame
    \/ Pong
    \/ CloseConnection
    \/ Tick
    \/ OnPingTimeout

SpecLive ==
    Init /\ [][NextLive]_vars /\ WF_vars(Tick) /\ WF_vars(OnPingTimeout)

-----------------------------------------------------------------------------
(* The static instance counter, for a population of engines.               *)

\* ChessEngine::ChessEngine: m_id(m_count++)
Construct ==
    /\ Len(assignedIds) < MaxEngines
    /\ engineIds' = Append(engineIds, m_count)
    /\ assignedIds' = Append(assignedIds, m_count)
    /\ m_count' = m_count + 1
    /\ UNCHANGED <<sessionVars, appliedSettings, boardVars>>

\* ChessEngine::~ChessEngine: --m_count
Destroy ==
    \E i \in 1..Len(engineIds) :
        /\ engineIds' = [j \in 1..(Len(engineIds) - 1) |->
                            IF j < i THEN engineIds[j] ELSE engineIds[j + 1]]
        /\ m_count' = m_count - 1
        /\ UNCHANGED <<assignedIds, sessionVars, appliedSettings, boardVars>>

NextIds == Construct \/ Destroy

SpecIds == Init /\ [][NextIds]_vars

-----------------------------------------------------------------------------
(* The Crazyhouse board on its own.                                        *)

CommitBoard(b) ==
    /\ squares' = b.squares
    /\ hands' = b.hands
    /\ sideToMove' = b.sideToMove
    /\ moveHistory' = b.moveHistory
    /\ UNCHANGED <<sessionVars, idVars, appliedSettings>>

\* Positions the games start from: a white piece facing a black piece, some
\* of them promoted, with one square free.
InitBoard ==
    /\ InitEngine
    /\ \E w \in {Pawn, Rook, PromotedBishop}, k \in {Knight, PromotedKnight,
                                                   PromotedQueen, Pawn} :
           squares = [sq \in 1..NumSquares |->
                         IF sq = 1 THEN Piece("white", w)
                         ELSE IF sq = 2 THEN Piece("black", k)
                         ELSE NoPiece]
    /\ hands = EmptyHands
    /\ sideToMove \in Sides
    /\ moveHistory = <<>>
    /\ positions = <<>>

MakeMove ==
    /\ Len(moveHistory) < MaxPlies
    /\ \E m \in Moves(Board) :
           /\ CommitBoard(vMakeMove(Board, m))
           /\ positions' = Append(positions, <<squares, hands>>)

UndoMove ==
    /\ moveHistory # <<>>
    /\ CommitBoard(vUndoMove(Board))
    /\ positions' = SubSeq(positions, 1, Len(positions) - 1)

NextBoard == MakeMove \/ UndoMove

SpecBoard == InitBoard /\ [][NextBoard]_vars

TypeOK ==
    /\ state \in States
    /\ m_pinging \in BOOLEAN
    /\ m_pingState \in States
    /\ m_pingTimer \in 0..PingTicks
    /\ nextSeq \in 0..MaxLines
    /\ Len(m_optionBuffer) <= MaxPending
    /\ Len(stream) + Len(m_writeBuffer) <= nextSeq

-----------------------------------------------------------------------------
(* Properties.                                                             *)

Increasing(lines) ==
    \A i, j \in 1..Len(lines) : i < j => lines[i].id < lines[j].id

Texts(lines) == [i \in 1..Len(lines) |-> <<lines[i].op, lines[i].name, lines[i].value>>]

FlushOps == {"start", "onProtocolStart", "pong"}

CloseOps == {"closeConnection", "onPingTimeout", "onDisconnect"}

\* C1: the lines on the stream are in the order in which they were handed to
\* write(), each at most once (their submission numbers strictly increase),
\* and a line waiting in the write buffer reaches the stream only in a step
\* that runs flushWriteBuffer() and drains the whole buffer, in buffer order,
\* right behind what was already sent.
C1_OrderPreserved ==
    [][/\ Increasing(stream')
       /\ Increasing(m_writeBuffer')
       /\ \A k \in 1..Len(m_writeBuffer) :
              (\E p \in 1..Len(stream') : stream'[p] = m_writeBuffer[k]) =>
                  /\ lastOp' \in FlushOps
                  /\ Len(stream') >= Len(stream) + Len(m_writeBuffer)
                  /\ SubSeq(stream', 1, Len(stream) + Len(m_writeBuffer))
                         = stream \o m_writeBuffer
                  /\ \A q \in 1..Len(m_writeBuffer') :
                         m_writeBuffer'[q].id > m_writeBuffer[k].id]_vars

\* Two deferred driver lines were flushed by a pong, in submission order.
C1_Witness ==
    /\ lastOp = "pong"
    /\ Len(stream) >= 3
    /\ stream[Len(stream)].op = "line"
    /\ stream[Len(stream) - 1].op = "line"
    /\ stream[Len(stream) - 1].id < stream[Len(stream)].id

\* C2: when onPingTimeout() has run, the state is Disconnected, m_pinging is
\* false, the write buffer is empty and the handler reported exactly one
\* forfeit; and a session reports at most one forfeit in its whole life.
C2_TimeoutOnce ==
    /\ forfeits <= 1
    /\ lastOp = "onPingTimeout" =>
           /\ state = "Disconnected"
           /\ ~m_pinging
           /\ m_writeBuffer = <<>>
           /\ emitted \in {<<"forfeit">>, <<"ready", "forfeit">>}

\* What does hold of every onPingTimeout(): the handler's own outcome.
C2_HandlerOutcome ==
    lastOp = "onPingTimeout" =>
        /\ state = "Disconnected"
        /\ ~m_pinging
        /\ m_writeBuffer = <<>>
        /\ emitted \in {<<"forfeit">>, <<"ready", "forfeit">>}

\* C3: a pong that arrives while a ping is outstanding and the state is
\* FinishingGame either settles the session (baseline FinishingGame: state
\* becomes Idle, ready is emitted once) or pings again (any other baseline:
\* m_pinging again, baseline FinishingGame, timer restarted, state kept, no
\* ready); and while a ping is outstanding, ready is emitted only by a pong
\* or by the session being closed.
C3_PongInFinishingGame ==
    [][/\ (lastOp' = "pong" /\ m_pinging /\ state = "FinishingGame") =>
              IF m_pingState = "FinishingGame"
              THEN /\ state' = "Idle"
                   /\ emitted' = <<"ready">>
                   /\ ~m_pinging'
              ELSE /\ m_pinging'
                   /\ m_pingState' = "FinishingGame"
                   /\ m_pingTimer' = PingTicks
                   /\ state' = "FinishingGame"
                   /\ emitted' = <<>>
                   /\ stream'[Len(stream')].op = "ping"
       /\ (m_pinging /\ \E i \in 1..Len(emitted') : emitted'[i] = "ready") =>
              lastOp' \in {"pong"} \cup CloseOps]_vars

\* A pong found the state changed to FinishingGame and pinged again.
C3_Witness ==
    /\ lastOp = "pong"
    /\ state = "FinishingGame"
    /\ m_pinging
    /\ m_pingState = "FinishingGame"
    /\ m_pingTimer = PingTicks
    /\ emitted = <<>>

Accepted(s, e) == e[1] \in DOMAIN s /\ e[2] \in OptionValues

OptionCommand(e) == <<"setoption", e[1], e[2]>>

\* C4: setOption() in NotStarted or Starting only queues the edit: stream,
\* write buffer and option values are unchanged.  onProtocolStart() leaves the
\* state Idle, sends the write buffer and behind it one set-option command per
\* queued edit the engine accepts, in queue order, stores the last accepted
\* value, and leaves the queue empty.
C4_PendingOptions ==
    [][/\ (lastOp' = "setOption" /\ state \in {"NotStarted", "Starting"}) =>
              /\ stream' = stream
              /\ m_writeBuffer' = m_writeBuffer
              /\ m_options' = m_options
              /\ Len(m_optionBuffer') = Len(m_optionBuffer) + 1
              /\ SubSeq(m_optionBuffer', 1, Len(m_optionBuffer)) = m_optionBuffer
       /\ lastOp' = "onProtocolStart" =>
              LET ok(e) == Accepted(m_options, e)
                  applied == SelectSeq(m_optionBuffer, ok)
                  sent == SubSeq(stream', Len(stream) + 1, Len(stream'))
              IN  /\ state' = "Idle"
                  /\ m_optionBuffer' = <<>>
                  /\ m_writeBuffer' = <<>>
                  /\ Len(sent) = Len(m_writeBuffer) + Len(applied)
                  /\ SubSeq(sent, 1, Len(m_writeBuffer)) = m_writeBuffer
                  /\ Texts(SubSeq(sent, Len(m_writeBuffer) + 1, Len(sent)))
                         = [i \in 1..Len(applied) |-> OptionCommand(applied[i])]
                  /\ Increasing(stream')
                  /\ IF applied = <<>>
                     THEN m_options' = m_options
                     ELSE m_options'["Hash"] = applied[Len(applied)][2]]_vars

\* Two edits of Hash queued before startup were applied, in order, at
\* onProtocolStart().
C4_Witness ==
    /\ lastOp = "onProtocolStart"
    /\ Len(stream) >= 3
    /\ Texts(stream)[Len(stream) - 1] = <<"setoption", "Hash", 1>>
    /\ Texts(stream)[Len(stream)] = <<"setoption", "Hash", 2>>
    /\ m_options["Hash"] = 2
    /\ m_optionBuffer = <<>>

\* C5: write() in state Disconnected changes neither the write buffer nor
\* the stream.
C5_WriteWhenDisconnected ==
    [][(lastOp' = "write" /\ state = "Disconnected") =>
           /\ m_writeBuffer' = m_writeBuffer
           /\ stream' = stream]_vars

\* write() ran on a session that quit() disconnected with a ping outstanding.
C5_Witness ==
    /\ lastOp = "write"
    /\ state = "Disconnected"
    /\ m_pinging
    /\ ioOpen
    /\ m_writeBuffer # <<>>

\* C6: ping() (reached through endGame() and go()) does nothing while a ping
\* is outstanding, nor in state NotStarted or Disconnected: no line is sent
\* or buffered, the timer keeps its remaining time, and the baseline state
\* and m_pinging are unchanged.
C6_RedundantPing ==
    [][(/\ lastOp' \in {"endGame", "go"}
        /\ (m_pinging \/ state \in {"NotStarted", "Disconnected"})) =>
           /\ stream' = stream
           /\ m_writeBuffer' = m_writeBuffer
           /\ nextSeq' = nextSeq
           /\ m_pingTimer' = m_pingTimer
           /\ m_pingState' = m_pingState
           /\ m_pinging' = m_pinging]_vars

\* endGame() ran while the ping sent by go() in Observing was outstanding and
\* its timer had already run down one tick.
C6_Witness ==
    /\ lastOp = "endGame"
    /\ state = "FinishingGame"
    /\ m_pinging
    /\ m_pingState = "Observing"
    /\ m_pingTimer = PingTicks - 1

\* C7: no two live engines have the same m_id, and the ids handed out are
\* strictly increasing (so none is ever handed out twice).
C7_UniqueIds ==
    /\ \A i, j \in 1..Len(engineIds) : i # j => engineIds[i] # engineIds[j]
    /\ \A i, j \in 1..Len(assignedIds) : i < j => assignedIds[i] < assignedIds[j]

\* C8: quit() on an open stream in a state other than Disconnected puts the
\* quit command on the stream and leaves the state Disconnected; quit() on a
\* Disconnected session or a closed stream changes nothing.
C8_QuitSendsCommand ==
    [][lastOp' = "quit" =>
           IF ioOpen /\ state # "Disconnected"
           THEN /\ Len(stream') = Len(stream) + 1
                /\ stream'[Len(stream')].op = "quit"
                /\ state' = "Disconnected"
           ELSE /\ stream' = stream
                /\ m_writeBuffer' = m_writeBuffer
                /\ state' = state]_vars

\* C9: in state Disconnected the ping timer is not armed, no ping is
\* outstanding and the write buffer is empty.
C9_DisconnectedIsQuiet ==
    state = "Disconnected" =>
        /\ m_pingTimer = 0
        /\ ~m_pinging
        /\ m_writeBuffer = <<>>

\* C10: closeConnection() on a Disconnected session emits nothing, does not
\* touch the stream and changes no member; and over a whole run the device
\* is closed, and the closing ready() emitted, at most once.
C10_CloseIsIdempotent ==
    [][/\ (lastOp' = "closeConnection" /\ state = "Disconnected") =>
              /\ emitted' = <<>>
              /\ UNCHANGED <<state, m_pinging, m_pingState, m_pingTimer,
                             m_writeBuffer, m_optionBuffer, m_options, ioOpen,
                             listening, stream, nextSeq, forfeits, closes,
                             closeReadies>>
       /\ closes' <= 1
       /\ closeReadies' <= 1]_vars

\* closeConnection() was called again on a session it had already closed.
C10_Witness ==
    /\ lastOp = "closeConnection"
    /\ state = "Disconnected"
    /\ closes = 1
    /\ closeReadies = 1
    /\ emitted = <<>>

NewLines(old, new) == {new[i] : i \in 1..Len(new)} \ {old[i] : i \in 1..Len(old)}

IsOptionLine(l) == l.op = "setoption"

\* C11: outside NotStarted and Starting, setOption() either changes nothing
\* (no stored value, no line sent or buffered) or stores the value of an edit
\* that names a declared option with a valid value and hands write() exactly
\* that option's command; and no set-option line on the stream or in the
\* write buffer ever names an undeclared option or carries an invalid value,
\* nor is such a value ever stored.
C11_RejectedEdits ==
    [][/\ (lastOp' = "setOption" /\ state \notin {"NotStarted", "Starting"}) =>
              \/ /\ m_options' = m_options
                 /\ stream' = stream
                 /\ m_writeBuffer' = m_writeBuffer
                 /\ nextSeq' = nextSeq
              \/ \E e \in OptionEdits :
                     /\ Accepted(m_options, e)
                     /\ m_options' = [m_options EXCEPT ![e[1]] = e[2]]
                     /\ nextSeq' = nextSeq + 1
                     /\ \A l \in NewLines(stream \o m_writeBuffer,
                                          stream' \o m_writeBuffer') :
                            <<l.op, l.name, l.value>> = OptionCommand(e)
       /\ \A i \in 1..Len(stream' \o m_writeBuffer') :
              LET l == (stream' \o m_writeBuffer')[i]
              IN  IsOptionLine(l) =>
                      l.name \in OptionNames /\ l.value \in OptionValues
       /\ \A n \in DOMAIN m_options' :
              m_options'[n] \in {0} \cup OptionValues]_vars

\* setOption() ran in state Idle with Hash declared and was rejected: Hash
\* keeps its default and no set-option line exists anywhere.
C11_Witness ==
    /\ lastOp = "setOption"
    /\ state = "Idle"
    /\ ~m_pinging
    /\ "Hash" \in DOMAIN m_options
    /\ m_options["Hash"] = 0
    /\ \A i \in 1..Len(stream) : ~IsOptionLine(stream[i])

\* C12: once the state is Disconnected it stays Disconnected, and no line is
\* added to the stream from then on.
C12_DisconnectedAbsorbing ==
    [][state = "Disconnected" =>
           /\ state' = "Disconnected"
           /\ stream' = stream]_vars

\* C14: every endGame() that returns on a session that is not Disconnected
\* is eventually followed by a ready signal or by the state Disconnected.
C14_EndGameResolves ==
    (lastOp = "endGame" /\ state # "Disconnected")
        ~> (state = "Disconnected"
            \/ \E i \in 1..Len(emitted) : emitted[i] = "ready")

\* C15: start() changes nothing unless the state is NotStarted; there it
\* sends the buffered lines in order, then the protocol handshake, and leaves
\* the state Starting with m_pinging set; in state Starting m_pinging stays
\* set, and write() in state Starting only appends to the write buffer.
C15_StartDefersWrites ==
    [][/\ (lastOp' = "start" /\ state # "NotStarted") =>
              UNCHANGED <<state, m_pinging, m_writeBuffer, stream, nextSeq>>
       /\ (lastOp' = "start" /\ state = "NotStarted") =>
              /\ state' = "Starting"
              /\ m_pinging'
              /\ m_writeBuffer' = <<>>
              /\ Len(stream') = Len(stream) + Len(m_writeBuffer) + 1
              /\ SubSeq(stream', 1, Len(stream') - 1) = stream \o m_writeBuffer
              /\ stream'[Len(stream')].op = "protocol"
       /\ state' = "Starting" => m_pinging'
       /\ (lastOp' = "write" /\ state = "Starting") =>
              /\ stream' = stream
              /\ Len(m_writeBuffer') = Len(m_writeBuffer) + 1]_vars

\* C17: a non-empty write buffer implies state NotStarted or a ping
\* outstanding.
C17_BufferOnlyWhileDeferred ==
    m_writeBuffer # <<>> => (state = "NotStarted" \/ m_pinging)

\* What does hold: a sendable session has an empty write buffer.
C17_SendableHasEmptyBuffer ==
    (state \notin {"NotStarted", "Disconnected"} /\ ~m_pinging) =>
        m_writeBuffer = <<>>

\* C18: an armed ping timer implies a ping outstanding.
C18_TimerImpliesPinging ==
    m_pingTimer > 0 => m_pinging

\* C19: a ping outstanding in state Idle, Observing, Thinking or
\* FinishingGame implies an armed ping timer.
C19_PingingImpliesTimer ==
    (m_pinging /\ state \in {"Idle", "Observing", "Thinking", "FinishingGame"})
        => m_pingTimer > 0

\* endGame() pinged an idle engine: the ping is outstanding and guarded.
C19_Witness ==
    /\ lastOp = "endGame"
    /\ state = "Idle"
    /\ m_pinging
    /\ m_pingTimer = PingTicks

\* C20: a forfeit is reported only by a timeout that found the session in a
\* state other than Disconnected.
C20_ForfeitOnlyWhenActive ==
    [][forfeits' # forfeits => state # "Disconnected"]_vars

RECURSIVE IsSubSeq(_, _)
IsSubSeq(a, b) ==
    IF a = <<>> THEN TRUE
    ELSE IF b = <<>> THEN FALSE
    ELSE IF Head(a) = Head(b) THEN IsSubSeq(Tail(a), Tail(b))
    ELSE IsSubSeq(a, Tail(b))

IsInitLine(l) == l.op = "init"

\* C16: of the lines of one applySettings() call, every initialization line
\* on the stream stands before every set-option line on the stream; the
\* initialization lines on the stream are in list order, and so are the
\* set-option commands.
C16_InitBeforeOptions ==
    appliedSettings # <<>> =>
        /\ \A i, j \in 1..Len(stream) :
               (IsInitLine(stream[i]) /\ IsOptionLine(stream[j])) => i < j
        /\ IsSubSeq([i \in 1..Len(SelectSeq(stream, IsInitLine)) |->
                         SelectSeq(stream, IsInitLine)[i].value],
                    appliedSettings[1])
        /\ IsSubSeq(Texts(SelectSeq(stream, IsOptionLine)),
                    [i \in 1..Len(appliedSettings[2]) |->
                         OptionCommand(appliedSettings[2][i])])

\* applySettings() ran before start(): its two initialization lines went out
\* at start(), ahead of the handshake, and its option at onProtocolStart().
C16_Witness ==
    /\ appliedSettings = <<<<1, 2>>, <<<<"Hash", 1>>>>>>
    /\ lastOp = "onProtocolStart"
    /\ Texts(stream) = <<<<"init", "", 1>>, <<"init", "", 2>>,
                         <<"protocol", "", 0>>, <<"setoption", "Hash", 1>>>>

IsPromoted(type) == type \in PromotedKnight..PromotedQueen

\* C13: a move that captures a promoted piece adds one pawn, the type such a
\* piece is demoted to, to the hand of the side that moved and changes no
\* other count in either hand; undoing it takes that pawn out again and puts
\* the promoted piece back on its square; every undo restores the squares and
\* hands the move was made from; and no hand ever holds a promoted type.
C13_PromotedCapture ==
    [][/\ (Len(moveHistory') = Len(moveHistory) + 1
           /\ IsPromoted(squares[moveHistory'[Len(moveHistory')].move.target].type)) =>
              hands' = [hands EXCEPT ![sideToMove][Pawn] = @ + 1]
       /\ (Len(moveHistory') = Len(moveHistory) - 1
           /\ IsPromoted(moveHistory[Len(moveHistory)].capture.type)) =>
              LET undo == moveHistory[Len(moveHistory)]
              IN  /\ hands' = [hands EXCEPT ![sideToMove'][Pawn] = @ - 1]
                  /\ squares'[undo.move.target] = undo.capture
                  /\ undo.capture.side = otherSide(sideToMove')
       /\ Len(moveHistory') = Len(moveHistory) - 1 =>
              <<squares', hands'>> = positions[Len(positions)]
       /\ \A sd \in Sides, type \in PromotedKnight..PromotedQueen :
              hands'[sd][type] = 0]_vars

\* White has captured black's promoted queen and holds one pawn for it.
C13_Witness ==
    /\ Len(moveHistory) = 1
    /\ moveHistory[1].capture = Piece("black", PromotedQueen)
    /\ hands["white"][Pawn] = 1
    /\ hands["black"] = EmptyHands["black"]

====
